---- MODULE Spec2Model ----
(***************************************************************************)
(* Model of 02a_check_events_01.py: the validator of the event-generation  *)
(* directory tree.  The program is sequential and only reads the file      *)
(* system; every file-system query (os.path.exists, glob.glob) is answered *)
(* from a directory description that is an input of the step making the    *)
(* query.                                                                  *)
(*                                                                         *)
(* Paths are sequences of path segments (os.path.join appends a segment),  *)
(* and a string built as f"{a}/{b}" is the two-segment sequence <<a, b>>;  *)
(* "Events/" is <<"Events", "">>.                                          *)
(***************************************************************************)
EXTENDS Integers, Sequences, FiniteSets, TLC

\* Bounds of the model: the number of entries of an Events directory, the
\* number of entries of a directory that is searched for processes, and the
\* number of entries of the tree under the two process roots that one run of
\* main reads.
MaxRuns == 2
MaxListing == 3
MaxTree == 8

----------------------------------------------------------------------------
(* Names *)

RunNameTable == <<"run_01", "run_02", "run_03", "run_04">>
RunNames == {RunNameTable[k] : k \in 1..MaxRuns}
OtherName == "README"

SignalSmStarNames == {"signal_sm_a"}
SignalSuppNames == {"signal_supp_A", "signal_supp_B"}
MorphingNames == {"morphing_basis_vector_1", "morphing_basis_vector_2"}
BackgroundNames == {"background_1", "background_2"}
MbVectorNames == {"mb_vector_1"}

\* fnmatch of a directory entry name against the glob patterns the program
\* uses, over the names of the model.
fnmatch(name, pattern) ==
    CASE pattern = "signal_sm_*" -> name \in SignalSmStarNames
      [] pattern = "signal_supp_*" -> name \in SignalSuppNames
      [] pattern = "morphing_basis_vector_*" -> name \in MorphingNames
      [] pattern = "background_*" -> name \in BackgroundNames
      [] pattern = "run_*" -> name \in {RunNameTable[k] : k \in DOMAIN RunNameTable}
      [] pattern = "mb_vector_*" -> name \in MbVectorNames
      [] OTHER -> FALSE

\* The substring test  "morphing_basis_vector" in signal_dir  on one segment.
contains_morphing_basis_vector(name) == name \in MorphingNames

\* The sequences of at most n entries of E, no two with the same key: the
\* possible results of listing a directory (the order is the file system's).
RECURSIVE DistinctSeqs(_, _)
DistinctSeqs(E, n) ==
    IF n = 0 THEN {<<>>}
    ELSE LET shorter == DistinctSeqs(E, n - 1)
         IN  shorter \cup
             {Append(s, e) : <<s, e>> \in
                 {p \in shorter \X E :
                     /\ Len(p[1]) = n - 1
                     /\ \A k \in 1..Len(p[1]) : p[1][k].name # p[2].name}}

\* The set S with its elements enumerated (a filtered set is otherwise
\* filtered again on every use).
Enumerate(S) == {x : x \in S}

----------------------------------------------------------------------------
(* Files of a run directory *)

optional_files == <<"unweighted_events.lhe.gz",
                    "tag_1_pythia8_events.hepmc.gz",
                    "tag_1_pythia8_events_delphes.root">>
\* A faulty variant of required_files: the optional files are required as well.
required_and_optional_files == <<"unweighted_events.lhe">> \o optional_files
required_files == <<"unweighted_events.lhe">>

SeqRange(s) == {s[k] : k \in 1..Len(s)}
FileNames == SeqRange(required_files) \cup SeqRange(optional_files)

Modes == {"rwx", "---"}

\* An entry of an Events directory: a run directory with its permission
\* bits and the files in it, or an entry that is no run directory.
RunEntries(modes) ==
    [name : RunNames, mode : modes, files : SUBSET FileNames]
OtherEntries == [name : {OtherName}, mode : {"rwx"}, files : {{}}]

\* A process directory: its permission bits, whether it holds Events, the
\* permission bits of Events and the listing of Events.
ProcessDirs(modes) ==
    [mode : modes, has_events : {FALSE}, events_mode : {"rwx"}, listing : {<<>>}]
    \cup
    [mode : modes, has_events : {TRUE}, events_mode : modes,
     listing : DistinctSeqs(RunEntries(modes) \cup OtherEntries, MaxRuns)]

----------------------------------------------------------------------------
(* check_required_files_in_directory *)

\* os.path.exists(os.path.join(process_dir, "Events")): the stat fails, and
\* exists answers False, when the process directory denies search permission.
events_exists(process_dir) ==
    process_dir.mode = "rwx" /\ process_dir.has_events

\* glob.glob(os.path.join(events_dir, "run_*")): the entries of Events whose
\* name matches, in listing order; nothing when Events cannot be listed
\* (glob swallows the OSError of os.scandir).
glob_run_dirs(process_dir) ==
    IF process_dir.events_mode = "rwx"
    THEN SelectSeq(process_dir.listing, LAMBDA e : fnmatch(e.name, "run_*"))
    ELSE <<>>

\* os.path.exists(os.path.join(run_dir, file_name)).
file_exists(run_dir, file_name) ==
    run_dir.mode = "rwx" /\ file_name \in run_dir.files

\* The loop over required_files for one run directory.
RECURSIVE missing_in_run(_, _)
missing_in_run(run_dir, files) ==
    IF files = <<>> THEN <<>>
    ELSE (IF ~file_exists(run_dir, Head(files))
          THEN << <<run_dir.name, Head(files)>> >>
          ELSE <<>>)
         \o missing_in_run(run_dir, Tail(files))

\* The loop over optional_files for one run directory: the lines reported.
RECURSIVE optional_in_run(_, _)
optional_in_run(run_dir, files) ==
    IF files = <<>> THEN <<>>
    ELSE (IF file_exists(run_dir, Head(files))
          THEN << <<run_dir.name, Head(files)>> >>
          ELSE <<>>)
         \o optional_in_run(run_dir, Tail(files))

\* A faulty variant of check_run_dirs: the loop ends after the first run directory.
check_first_run_dir_only(run_dirs) ==
    IF run_dirs = <<>> THEN <<>>
    ELSE missing_in_run(Head(run_dirs), required_files)

\* The loop over run_dirs: the missing required files of every run.
RECURSIVE check_run_dirs(_)
check_run_dirs(run_dirs) ==
    IF run_dirs = <<>> THEN <<>>
    ELSE missing_in_run(Head(run_dirs), required_files)
         \o check_run_dirs(Tail(run_dirs))

RECURSIVE report_optional(_)
report_optional(run_dirs) ==
    IF run_dirs = <<>> THEN <<>>
    ELSE optional_in_run(Head(run_dirs), optional_files)
         \o report_optional(Tail(run_dirs))

\* A faulty variant of check_required_files_in_directory: an Events directory without
\* run directories is passed over.
check_required_files_skipping_no_runs(process_dir, process_type) ==
    IF ~events_exists(process_dir) THEN << <<"Events", "">> >>
    ELSE check_run_dirs(glob_run_dirs(process_dir))

\* The list check_required_files_in_directory returns.
check_required_files_in_directory(process_dir, process_type) ==
    IF ~events_exists(process_dir) THEN << <<"Events", "">> >>
    ELSE IF glob_run_dirs(process_dir) = <<>> THEN << <<"Events", "run_*">> >>
    ELSE check_run_dirs(glob_run_dirs(process_dir))

\* The "Optional file found" lines check_required_files_in_directory writes.
optional_files_found(process_dir) ==
    IF ~events_exists(process_dir) THEN <<>>
    ELSE report_optional(glob_run_dirs(process_dir))

----------------------------------------------------------------------------
(* Discovery of the process directories *)

\* The values of --base-dir: the default and a directory given by name.
BaseDirs == {".", "sub"}

\* os.path.join(args.base_dir, "02_mg_processes") and
\* os.path.join(args.base_dir, "02_mg_processes_2").
mg_processes_dir(base) == <<base, "02_mg_processes">>
mg_processes_2_dir(base) == <<base, "02_mg_processes_2">>

\* What check_directory_structure queries: the base directory and the two
\* process roots under it.
TopDirs ==
    {t \in [base : BOOLEAN, mg : BOOLEAN, mg2 : BOOLEAN] :
        (t.mg \/ t.mg2) => t.base}

\* The entries of 02_mg_processes: a signal_supp_* entry has a listing of
\* its own, the other entries are leaves of the discovery.
ChildEntries == [name : MorphingNames \cup {OtherName}]
MgEntries ==
    [name : {"signal_sm"} \cup SignalSmStarNames \cup {OtherName},
     children : {<<>>}]
    \cup
    [name : SignalSuppNames, children : DistinctSeqs(ChildEntries, MaxListing)]
MgListings == DistinctSeqs(MgEntries, MaxListing)

\* The entries of 02_mg_processes_2.
Mg2Entries == [name : BackgroundNames \cup {OtherName}]
Mg2Listings == DistinctSeqs(Mg2Entries, MaxListing)

\* check_directory_structure: False without the base directory or without
\* 02_mg_processes; a missing 02_mg_processes_2 is reported and accepted.
check_directory_structure(top) ==
    IF ~top.base THEN FALSE
    ELSE IF ~top.mg THEN FALSE
    ELSE TRUE

\* [os.path.join(dir, e) for e in entries]
RECURSIVE join_all(_, _)
join_all(dir, entries) ==
    IF entries = <<>> THEN <<>>
    ELSE <<Append(dir, Head(entries).name)>> \o join_all(dir, Tail(entries))

\* glob.glob(os.path.join(dir, pattern)) over the listing of dir.
glob(dir, listing, pattern) ==
    join_all(dir, SelectSeq(listing, LAMBDA e : fnmatch(e.name, pattern)))

\* The loop over signal_supp_dirs: every signal_supp_* directory is expanded
\* into its morphing_basis_vector_* children.
RECURSIVE expand_signal_supp(_, _)
expand_signal_supp(dir, supp_entries) ==
    IF supp_entries = <<>> THEN <<>>
    ELSE glob(Append(dir, Head(supp_entries).name),
              Head(supp_entries).children, "morphing_basis_vector_*")
         \o expand_signal_supp(dir, Tail(supp_entries))

\* A faulty variant of check_signal_directories: the signal_supp_* directories are
\* taken as process directories themselves.
check_signal_directories_unexpanded(dir, listing) ==
    (IF \E k \in 1..Len(listing) : listing[k].name = "signal_sm"
     THEN <<Append(dir, "signal_sm")>> ELSE <<>>)
    \o glob(dir, listing, "signal_sm_*")
    \o glob(dir, listing, "signal_supp_*")

\* check_signal_directories: the list of signal process directories; the
\* empty list stands for the False the function returns when it found none.
check_signal_directories(dir, listing) ==
    (IF \E k \in 1..Len(listing) : listing[k].name = "signal_sm"
     THEN <<Append(dir, "signal_sm")>> ELSE <<>>)
    \o glob(dir, listing, "signal_sm_*")
    \o expand_signal_supp(dir,
           SelectSeq(listing, LAMBDA e : fnmatch(e.name, "signal_supp_*")))

\* A faulty variant of check_background_directories: every entry of the root is taken
\* as a background directory.
check_background_directories_unfiltered(dir, exists, listing) ==
    IF ~exists THEN <<>> ELSE join_all(dir, listing)

\* check_background_directories: no directories without 02_mg_processes_2,
\* else its background_* entries.
check_background_directories(dir, exists, listing) ==
    IF ~exists THEN <<>> ELSE glob(dir, listing, "background_*")

\* A faulty variant of no_signal_dirs: the empty result is not noticed.
no_signal_dirs_unnoticed(dirs) == FALSE

\* main's test  if not signal_dirs  after check_signal_directories.
no_signal_dirs(dirs) == dirs = <<>>

\* The display name check_all_processes gives a signal directory.  The test
\* is on the whole path; no base directory of the model holds the substring.
signal_process_name(signal_dir) ==
    IF \E k \in 1..Len(signal_dir) : contains_morphing_basis_vector(signal_dir[k])
    THEN <<signal_dir[Len(signal_dir) - 1], signal_dir[Len(signal_dir)]>>
    ELSE <<signal_dir[Len(signal_dir)]>>

\* The display name check_all_processes gives a background directory.
background_process_name(background_dir) ==
    <<background_dir[Len(background_dir)]>>

----------------------------------------------------------------------------
(* The downstream-structure check *)

expected_processes == <<"signal_sm", "signal_supp", "background">>

\* What check_expected_structure_for_delphes queries: the input root, the
\* category directories in it and the mb_vector_* entries of signal_supp.
DelphesTrees ==
    [root : {FALSE}, dirs : {{}}, mb_vector : {{}}]
    \cup
    {t \in [root : {TRUE}, dirs : SUBSET SeqRange(expected_processes),
            mb_vector : SUBSET MbVectorNames] :
        t.mb_vector # {} => "signal_supp" \in t.dirs}

\* A faulty variant of check_expected_structure_for_delphes: a missing category
\* directory makes the check fail.
check_expected_structure_all_required(tree) ==
    tree.root /\ SeqRange(expected_processes) \subseteq tree.dirs

\* check_expected_structure_for_delphes: the value it returns.
check_expected_structure_for_delphes(tree) ==
    IF ~tree.root THEN FALSE ELSE TRUE

----------------------------------------------------------------------------
(* The program *)

VARIABLES
    pc,                    \* the statement of main (or of the file check) that runs next
    base_dir,              \* main: args.base_dir
    workflow,              \* main: workflow, "unloaded" before it is loaded
    top,                   \* the base directory and the two process roots, once queried
    fs_read,               \* the directory description the last step read
    entries_read,          \* the number of entries of the tree read so far
    calls,                 \* the functions main has called so far, in order
    signal_dirs,           \* main: signal_dirs
    background_dirs,       \* main: background_dirs
    idx,                   \* check_all_processes: position of the running loop
    total_checked,         \* check_all_processes: total_checked
    total_with_issues,     \* check_all_processes: total_with_issues
    process_name,          \* check_all_processes: process_name of the last directory
    missing_files,         \* check_all_processes: missing_files of the last directory
    optional_found,        \* the "Optional file found" lines of the last directory
    report,                \* the verdict lines written, one for each directory checked
    all_files_ok,          \* main: all_files_ok
    delphes_structure_ok,  \* main: delphes_structure_ok
    exit_status            \* <<>> while main runs, <<n>> once the process has ended with n

vars == <<pc, base_dir, workflow, top, fs_read, entries_read, calls, signal_dirs, background_dirs, idx,
          total_checked, total_with_issues, process_name, missing_files,
          optional_found, report, all_files_ok, delphes_structure_ok,
          exit_status>>

NoRead == [kind |-> "none"]

\* main reads every listing in the order the file system gives it, whatever
\* that order is, and run directories with any of the four files.  The
\* trees one run reads hold at most MaxTree entries: an entry of a listing
\* counts one, and so does each file of a run directory and Events itself.
RECURSIVE EventsListingSize(_)
EventsListingSize(listing) ==
    IF listing = <<>> THEN 0
    ELSE 1 + Cardinality(Head(listing).files) + EventsListingSize(Tail(listing))
ProcessDirSize(d) ==
    IF ~d.has_events THEN 0 ELSE 1 + EventsListingSize(d.listing)
RECURSIVE MgListingSize(_)
MgListingSize(listing) ==
    IF listing = <<>> THEN 0
    ELSE 1 + Len(Head(listing).children) + MgListingSize(Tail(listing))
Mg2ListingSize(listing) == Len(listing)

\* The descriptions of at most n entries, for every n up to MaxTree: what a
\* step may read when MaxTree - n entries have been read before it.
ProcessDirsUpTo ==
    [n \in 0..MaxTree |->
        Enumerate({d \in ProcessDirs({"rwx"}) : ProcessDirSize(d) <= n})]
MgListingsUpTo ==
    [n \in 0..MaxTree |->
        Enumerate({l \in MgListings : MgListingSize(l) <= n})]
Mg2ListingsUpTo ==
    [n \in 0..MaxTree |->
        Enumerate({l \in Mg2Listings : Mg2ListingSize(l) <= n})]

Locals0 ==
    /\ workflow = "unloaded"
    /\ top = NoRead
    /\ fs_read = NoRead
    /\ entries_read = 0
    /\ calls = <<>>
    /\ signal_dirs = <<>>
    /\ background_dirs = <<>>
    /\ idx = 0
    /\ total_checked = 0
    /\ total_with_issues = 0
    /\ process_name = <<>>
    /\ missing_files = <<>>
    /\ optional_found = <<>>
    /\ report = <<>>
    /\ all_files_ok = FALSE
    /\ delphes_structure_ok = FALSE
    /\ exit_status = <<>>

\* main, lines 251-263: the arguments are parsed.
Init ==
    /\ pc = "load_workflow_config"
    /\ base_dir \in BaseDirs
    /\ Locals0

\* main, lines 265-271: a configuration that cannot be loaded ends the run.
LoadWorkflowConfig ==
    /\ pc = "load_workflow_config"
    /\ calls' = Append(calls, "load_workflow_config")
    /\ \E loaded \in BOOLEAN :
          IF loaded
          THEN /\ workflow' = "loaded"
               /\ pc' = "check_directory_structure"
               /\ UNCHANGED exit_status
          ELSE /\ pc' = "done"
               /\ exit_status' = <<1>>
               /\ UNCHANGED workflow
    /\ UNCHANGED <<base_dir, top, fs_read, entries_read, signal_dirs, background_dirs, idx,
                   total_checked, total_with_issues, process_name,
                   missing_files, optional_found, report, all_files_ok,
                   delphes_structure_ok>>

\* main, lines 273-276.
CheckDirectoryStructure ==
    /\ pc = "check_directory_structure"
    /\ calls' = Append(calls, "check_directory_structure")
    /\ \E t \in TopDirs :
          /\ top' = t
          /\ fs_read' = [kind |-> "top", top |-> t]
    /\ UNCHANGED <<base_dir, entries_read>>
    /\ IF ~check_directory_structure(top')
       THEN pc' = "done" /\ exit_status' = <<1>>
       ELSE pc' = "check_signal_directories" /\ UNCHANGED exit_status
    /\ UNCHANGED <<workflow, signal_dirs, background_dirs, idx,
                   total_checked, total_with_issues, process_name,
                   missing_files, optional_found, report, all_files_ok,
                   delphes_structure_ok>>

\* main, lines 278-282.
CheckSignalDirectories ==
    /\ pc = "check_signal_directories"
    /\ calls' = Append(calls, "check_signal_directories")
    /\ \E listing \in (IF top.mg THEN MgListingsUpTo[MaxTree - entries_read]
                       ELSE {<<>>}) :
          /\ fs_read' = [kind |-> "02_mg_processes", listing |-> listing]
          /\ entries_read' = entries_read + MgListingSize(listing)
          /\ signal_dirs' =
                check_signal_directories(mg_processes_dir(base_dir), listing)
    /\ UNCHANGED base_dir
    /\ IF no_signal_dirs(signal_dirs')
       THEN pc' = "done" /\ exit_status' = <<1>>
       ELSE pc' = "check_background_directories" /\ UNCHANGED exit_status
    /\ UNCHANGED <<workflow, top, background_dirs, idx, total_checked,
                   total_with_issues, process_name, missing_files,
                   optional_found, report, all_files_ok,
                   delphes_structure_ok>>

\* main, lines 284-285 and 288, with the head of check_all_processes,
\* lines 165-166.  check_background_directories queries 02_mg_processes_2
\* again: without it there are no background directories.
CheckBackgroundDirectories ==
    /\ pc = "check_background_directories"
    /\ calls' = calls \o <<"check_background_directories", "check_all_processes">>
    /\ \E listing \in (IF top.mg2 THEN Mg2ListingsUpTo[MaxTree - entries_read]
                       ELSE {<<>>}) :
          /\ fs_read' = [kind |-> "02_mg_processes_2", exists |-> top.mg2,
                          listing |-> listing]
          /\ entries_read' = entries_read + Mg2ListingSize(listing)
          /\ background_dirs' =
                check_background_directories(mg_processes_2_dir(base_dir),
                                             top.mg2, listing)
    /\ UNCHANGED base_dir
    /\ pc' = "signal_loop"
    /\ idx' = 1
    /\ total_checked' = 0
    /\ total_with_issues' = 0
    /\ UNCHANGED <<workflow, top, signal_dirs, process_name, missing_files,
                   optional_found, report, all_files_ok,
                   delphes_structure_ok, exit_status>>

\* A faulty variant of count_issues: the counter is set instead of incremented.
count_issues_set(issues, missing) ==
    IF missing # <<>> THEN 1 ELSE issues

\* check_all_processes, lines 180-188 and 196-204: the counters after a
\* directory whose check returned missing.
count_issues(issues, missing) ==
    IF missing # <<>> THEN issues + 1 ELSE issues

\* One turn of a loop of check_all_processes over the directory read as d.
CheckProcess(d, name, process_type) ==
    /\ fs_read' = [kind |-> "process", type |-> process_type, dir |-> d]
    /\ entries_read' = entries_read + ProcessDirSize(d)
    /\ process_name' = name
    /\ missing_files' = check_required_files_in_directory(d, process_type)
    /\ optional_found' = optional_files_found(d)
    /\ report' = Append(report, [name |-> name, ok |-> missing_files' = <<>>])
    /\ total_with_issues' = count_issues(total_with_issues, missing_files')
    /\ total_checked' = total_checked + 1
    /\ idx' = idx + 1
    /\ UNCHANGED <<pc, base_dir, workflow, top, calls, signal_dirs,
                   background_dirs, all_files_ok, delphes_structure_ok,
                   exit_status>>

\* check_all_processes, lines 170-188.
CheckSignalProcess ==
    /\ pc = "signal_loop"
    /\ idx <= Len(signal_dirs)
    /\ \E d \in ProcessDirsUpTo[MaxTree - entries_read] :
          CheckProcess(d, signal_process_name(signal_dirs[idx]), "signal")

\* check_all_processes, line 192: the signal loop is over.
EndSignalLoop ==
    /\ pc = "signal_loop"
    /\ idx > Len(signal_dirs)
    /\ pc' = "background_loop"
    /\ idx' = 1
    /\ UNCHANGED <<base_dir, workflow, top, fs_read, entries_read, calls,
                   signal_dirs, background_dirs,
                   total_checked, total_with_issues, process_name,
                   missing_files, optional_found, report, all_files_ok,
                   delphes_structure_ok, exit_status>>

\* check_all_processes, lines 192-204.
CheckBackgroundProcess ==
    /\ pc = "background_loop"
    /\ idx <= Len(background_dirs)
    /\ \E d \in ProcessDirsUpTo[MaxTree - entries_read] :
          CheckProcess(d, background_process_name(background_dirs[idx]),
                       "background")

\* check_all_processes, line 212.
no_issues(issues) == issues = 0

\* check_all_processes, lines 206-212, and main, line 288.  The loop
\* variables of check_all_processes end with it; its two counters are kept
\* as the summary it wrote.
ReturnCheckAllProcesses ==
    /\ pc = "background_loop"
    /\ idx > Len(background_dirs)
    /\ all_files_ok' = no_issues(total_with_issues)
    /\ pc' = "check_expected_structure_for_delphes"
    /\ fs_read' = NoRead
    /\ idx' = 0
    /\ process_name' = <<>>
    /\ missing_files' = <<>>
    /\ optional_found' = <<>>
    /\ UNCHANGED <<base_dir, workflow, top, entries_read, calls, signal_dirs,
                   background_dirs, total_checked, total_with_issues, report,
                   delphes_structure_ok, exit_status>>

\* main, line 291.  workflow["delphes"]["input_dir_prefix"] raises when the
\* loaded configuration has no such key: the exception leaves main and the
\* interpreter ends with status 1.
CheckExpectedStructureForDelphes ==
    /\ pc = "check_expected_structure_for_delphes"
    /\ calls' = Append(calls, "check_expected_structure_for_delphes")
    /\ \/ /\ fs_read' = [kind |-> "delphes", raised |-> TRUE]
          /\ pc' = "done"
          /\ exit_status' = <<1>>
          /\ UNCHANGED delphes_structure_ok
       \/ \E tree \in DelphesTrees :
          /\ fs_read' = [kind |-> "delphes", raised |-> FALSE, tree |-> tree]
          /\ delphes_structure_ok' = check_expected_structure_for_delphes(tree)
          /\ pc' = "final_summary"
          /\ UNCHANGED exit_status
    /\ UNCHANGED <<base_dir, workflow, top, entries_read, signal_dirs,
                   background_dirs, idx, total_checked, total_with_issues,
                   process_name, missing_files, optional_found, report,
                   all_files_ok>>

\* A faulty variant of final_verdict: one passing check is enough.
final_verdict_either(files_ok, structure_ok) ==
    IF files_ok \/ structure_ok THEN 0 ELSE 1

\* main, lines 297-302: the status main returns.
final_verdict(files_ok, structure_ok) ==
    IF files_ok /\ structure_ok THEN 0 ELSE 1

FinalSummary ==
    /\ pc = "final_summary"
    /\ exit_status' = <<final_verdict(all_files_ok, delphes_structure_ok)>>
    /\ pc' = "done"
    /\ UNCHANGED <<base_dir, workflow, top, fs_read, entries_read, calls,
                   signal_dirs, background_dirs,
                   idx, total_checked, total_with_issues, process_name,
                   missing_files, optional_found, report, all_files_ok,
                   delphes_structure_ok>>

Next ==
    \/ LoadWorkflowConfig
    \/ CheckDirectoryStructure
    \/ CheckSignalDirectories
    \/ CheckBackgroundDirectories
    \/ CheckSignalProcess
    \/ EndSignalLoop
    \/ CheckBackgroundProcess
    \/ ReturnCheckAllProcesses
    \/ CheckExpectedStructureForDelphes
    \/ FinalSummary

Spec == Init /\ [][Next]_vars

----------------------------------------------------------------------------
(* check_required_files_in_directory on one process directory *)

\* One call of check_required_files_in_directory.
CheckRequiredFiles ==
    /\ pc = "check_required_files_in_directory"
    /\ missing_files' = check_required_files_in_directory(fs_read.dir, fs_read.type)
    /\ optional_found' = optional_files_found(fs_read.dir)
    /\ pc' = "returned"
    /\ UNCHANGED <<base_dir, workflow, top, fs_read, entries_read, calls,
                   signal_dirs, background_dirs,
                   idx, total_checked, total_with_issues, process_name,
                   report, all_files_ok, delphes_structure_ok, exit_status>>

ReadableDirs == ProcessDirs({"rwx"})
AnyModeDirs == ProcessDirs(Modes)

\* The state in which one function is applied to the descriptions in reads.
InitAt(start, bases, reads) ==
    /\ pc = start
    /\ base_dir \in bases
    /\ fs_read \in reads
    /\ entries_read = 0
    /\ workflow = "loaded"
    /\ top = NoRead
    /\ calls = <<>>
    /\ signal_dirs = <<>>
    /\ background_dirs = <<>>
    /\ idx = 0
    /\ total_checked = 0
    /\ total_with_issues = 0
    /\ process_name = <<>>
    /\ missing_files = <<>>
    /\ optional_found = <<>>
    /\ report = <<>>
    /\ all_files_ok = FALSE
    /\ delphes_structure_ok = FALSE
    /\ exit_status = <<>>

ProcessReads(dirs) ==
    [kind : {"process"}, type : {"signal", "background"}, dir : dirs]

\* Every directory readable.
InitFiles ==
    InitAt("check_required_files_in_directory", {"."},
           ProcessReads(ReadableDirs))
NextFiles == CheckRequiredFiles
SpecFiles == InitFiles /\ [][NextFiles]_vars

\* Directories may deny access (mode 000).
InitAccess ==
    InitAt("check_required_files_in_directory", {"."},
           ProcessReads(AnyModeDirs))
NextAccess == CheckRequiredFiles
SpecAccess == InitAccess /\ [][NextAccess]_vars

----------------------------------------------------------------------------
(* Properties *)

Called(f) == \E k \in 1..Len(calls) : calls[k] = f
Last(s) == s[Len(s)]

\* The run directories a process directory physically holds.
RunsOf(d) == SelectSeq(d.listing, LAMBDA e : e.name \in RunNames)
LacksRequired(run) == \E f \in SeqRange(required_files) : f \notin run.files

\* The check of one process directory has returned.
Checked == fs_read.kind = "process" /\ pc # "check_required_files_in_directory"

\* A required root is missing, or discovery found no signal process directory.
StructuralAbsence ==
    \/ top # NoRead /\ (~top.base \/ ~top.mg)
    \/ Called("check_signal_directories") /\ signal_dirs = <<>>

\* C1: a missing base directory, a missing 02_mg_processes, or a discovery
\* that finds no signal process directory ends the run at once with a
\* non-zero status: the function that found it is the last one called, no
\* process directory was produced, no directory was checked, and neither
\* background discovery nor check_all_processes nor the downstream-structure
\* check was reached.
C1_StructuralAbsenceIsFatal ==
    StructuralAbsence =>
        /\ pc = "done"
        /\ exit_status = <<1>>
        /\ signal_dirs = <<>>
        /\ background_dirs = <<>>
        /\ report = <<>>
        /\ total_checked = 0
        /\ ~Called("check_background_directories")
        /\ ~Called("check_all_processes")
        /\ ~Called("check_expected_structure_for_delphes")
        /\ Last(calls) = (IF top.base /\ top.mg THEN "check_signal_directories"
                          ELSE "check_directory_structure")

\* 02_mg_processes exists and holds a signal_supp_* directory, but no signal
\* process directory was found, and the run ended with status 1.
C1_Witness ==
    /\ pc = "done"
    /\ exit_status = <<1>>
    /\ fs_read.kind = "02_mg_processes"
    /\ \E k \in 1..Len(fs_read.listing) :
          fs_read.listing[k].name \in SignalSuppNames
    /\ signal_dirs = <<>>

\* The downstream-structure check returned True.
DelphesReturnedTrue ==
    /\ fs_read.kind = "delphes"
    /\ ~fs_read.raised
    /\ delphes_structure_ok

\* C2: once the fatal checks have passed, main ends with status 0 exactly
\* when no checked directory had missing items (total_with_issues = 0) and
\* the downstream-structure check returned True, and with status 1 otherwise.
C2_VerdictIsConjunction ==
    (pc = "done" /\ Called("check_all_processes")) =>
        /\ exit_status \in {<<0>>, <<1>>}
        /\ (exit_status = <<0>>) <=> (total_with_issues = 0 /\ DelphesReturnedTrue)
        /\ (total_with_issues = 0) <=> (\A k \in 1..Len(report) : report[k].ok)

\* A run over signal and background directories that ends with status 0.
C2_Witness ==
    /\ pc = "done"
    /\ exit_status = <<0>>
    /\ Len(signal_dirs) >= 1
    /\ Len(background_dirs) >= 1
    /\ total_with_issues = 0
    /\ delphes_structure_ok

\* C3 as claimed: the downstream-structure check returns True only when the
\* input root and all of signal_sm, signal_supp and background exist.
C3_TrueOnlyWithAllCategories ==
    (fs_read.kind = "delphes" /\ ~fs_read.raised) =>
        (delphes_structure_ok =>
            /\ fs_read.tree.root
            /\ SeqRange(expected_processes) \subseteq fs_read.tree.dirs)

\* C3 amended: the downstream-structure check returns True exactly when the
\* input root exists; a missing category directory, like missing mb_vector_*
\* subdirectories, does not change the result.
C3_TrueIffRootExists ==
    (fs_read.kind = "delphes" /\ ~fs_read.raised) =>
        (delphes_structure_ok <=> fs_read.tree.root)

\* The input root exists without the background category and without
\* mb_vector_* under signal_supp: the check returned True and main ended 0.
C3_Witness ==
    /\ pc = "done"
    /\ fs_read.kind = "delphes"
    /\ ~fs_read.raised
    /\ fs_read.tree.root
    /\ fs_read.tree.dirs = {"signal_sm", "signal_supp"}
    /\ fs_read.tree.mb_vector = {}
    /\ delphes_structure_ok
    /\ exit_status = <<0>>

\* C4: a process directory without run directories yields exactly one
\* missing item, "Events/" when Events is absent and "Events/run_*" when
\* Events exists without a run_* entry, and is counted as a failure.
C4_NoRunsIsOneMissingItem ==
    (Checked /\ RunsOf(fs_read.dir) = <<>>) =>
        /\ Len(missing_files) = 1
        /\ missing_files = (IF fs_read.dir.has_events
                            THEN << <<"Events", "run_*">> >>
                            ELSE << <<"Events", "">> >>)
        /\ count_issues(0, missing_files) = 1

\* Events exists and holds only an entry that is no run directory.
C4_Witness ==
    /\ Checked
    /\ fs_read.dir.has_events
    /\ Len(fs_read.dir.listing) = 1
    /\ fs_read.dir.listing[1].name = OtherName
    /\ missing_files = << <<"Events", "run_*">> >>

\* C5: for a process directory with run directories the missing items are
\* "<run>/unweighted_events.lhe" for exactly the runs that lack the file,
\* one entry for each such run, and the directory fails exactly when there
\* is such a run.
C5_OneItemPerRunLackingTheFile ==
    (Checked /\ RunsOf(fs_read.dir) # <<>>) =>
        LET lacking == {r \in SeqRange(RunsOf(fs_read.dir)) : LacksRequired(r)}
        IN  /\ SeqRange(missing_files) =
                  {<<r.name, "unweighted_events.lhe">> : r \in lacking}
            /\ Len(missing_files) = Cardinality(lacking)
            /\ count_issues(0, missing_files) = (IF lacking = {} THEN 0 ELSE 1)
            /\ (Len(RunsOf(fs_read.dir)) = 1 /\ lacking # {}
                /\ fs_read.dir.listing[1].name = "run_01")
               => missing_files = << <<"run_01", "unweighted_events.lhe">> >>

\* Two run directories, both without the required file: two entries.
C5_Witness ==
    /\ Checked
    /\ Len(fs_read.dir.listing) = 2
    /\ \A k \in 1..2 :
          /\ fs_read.dir.listing[k].name \in RunNames
          /\ "unweighted_events.lhe" \notin fs_read.dir.listing[k].files
    /\ Len(missing_files) = 2
    /\ missing_files[1] # missing_files[2]

\* The process directory d without its optional files.
StripOptional(d) ==
    [d EXCEPT !.listing =
        [k \in 1..Len(d.listing) |->
            [d.listing[k] EXCEPT !.files = @ \ SeqRange(optional_files)]]]

\* C6: no missing item names an optional file, and the outcome of a process
\* directory (its missing items, whether it counts as a failure) is the
\* outcome of the same directory without any optional file.
C6_OptionalFilesNeverMissing ==
    Checked =>
        /\ \A k \in 1..Len(missing_files) :
              missing_files[k][2] \notin SeqRange(optional_files)
        /\ missing_files =
              check_required_files_in_directory(StripOptional(fs_read.dir),
                                                fs_read.type)
        /\ count_issues(0, missing_files) =
              count_issues(0, check_required_files_in_directory(
                                  StripOptional(fs_read.dir), fs_read.type))

\* A run with the required file and one of the three optional files: the
\* optional file is reported as found and nothing is missing.
C6_Witness ==
    /\ Checked
    /\ Len(fs_read.dir.listing) = 1
    /\ fs_read.dir.listing[1].files =
          {"unweighted_events.lhe", "tag_1_pythia8_events.hepmc.gz"}
    /\ missing_files = <<>>
    /\ Len(optional_found) = 1

\* check_signal_directories has just returned: the listing of
\* 02_mg_processes it read is the last description read.
Discovered == fs_read.kind = "02_mg_processes"

\* The positions of signal_dirs that lie under the signal_supp_* directory e.
Under(e) ==
    {k \in 1..Len(signal_dirs) :
        Len(signal_dirs[k]) = Len(mg_processes_dir(base_dir)) + 2
        /\ signal_dirs[k][Len(mg_processes_dir(base_dir)) + 1] = e.name}

\* The k-th signal directory is a child of a signal_supp_* directory.
IsBasisVariant(k) ==
    /\ Len(signal_dirs[k]) = Len(mg_processes_dir(base_dir)) + 2
    /\ signal_dirs[k][Len(mg_processes_dir(base_dir)) + 1] \in SignalSuppNames

\* C7: a signal_supp_* directory is no process directory itself; each of
\* its morphing_basis_vector_* children is exactly one signal process
\* directory, displayed as "<signal_supp_dir>/<morphing_dir>", so that k
\* children give k process directories and none give none, which by itself
\* does not end the run.
C7_BasisVariantExpansion ==
    /\ Discovered =>
          /\ \A k \in 1..Len(fs_read.listing) :
                LET e == fs_read.listing[k]
                    children == {c.name : c \in SeqRange(e.children)}
                                   \cap MorphingNames
                IN  e.name \in SignalSuppNames =>
                      /\ \A j \in 1..Len(signal_dirs) :
                            signal_dirs[j] #
                                Append(mg_processes_dir(base_dir), e.name)
                      /\ Cardinality(Under(e)) = Cardinality(children)
                      /\ {Last(signal_dirs[j]) : j \in Under(e)} = children
          /\ signal_dirs # <<>> =>
                (pc = "check_background_directories" /\ exit_status = <<>>)
    /\ \A k \in 1..Len(signal_dirs) :
          /\ IsBasisVariant(k) => Last(signal_dirs[k]) \in MorphingNames
          /\ (IsBasisVariant(k) /\ k <= Len(report)) =>
                report[k].name =
                    SubSeq(signal_dirs[k], Len(mg_processes_dir(base_dir)) + 1,
                           Len(mg_processes_dir(base_dir)) + 2)
          /\ (IsBasisVariant(k) /\ pc = "signal_loop" /\ idx = k + 1) =>
                process_name =
                    SubSeq(signal_dirs[k], Len(mg_processes_dir(base_dir)) + 1,
                           Len(mg_processes_dir(base_dir)) + 2)

\* signal_supp_A with morphing_basis_vector_1 and morphing_basis_vector_2
\* gave two process directories; both were checked, each displayed under
\* its parent.
C7_Witness ==
    /\ pc = "signal_loop"
    /\ signal_dirs =
          <<mg_processes_dir(base_dir)
                \o <<"signal_supp_A", "morphing_basis_vector_1">>,
            mg_processes_dir(base_dir)
                \o <<"signal_supp_A", "morphing_basis_vector_2">> >>
    /\ idx = 3
    /\ total_checked = 2
    /\ report[1].name = <<"signal_supp_A", "morphing_basis_vector_1">>
    /\ process_name = <<"signal_supp_A", "morphing_basis_vector_2">>

\* C8: without 02_mg_processes_2, or without a background_* entry in it,
\* there are no background directories and the run goes on; every signal
\* directory is still checked, and the verdict is the one the signal
\* directories and the downstream-structure check give.
C8_MissingBackgroundsAreNotFatal ==
    /\ (fs_read.kind = "02_mg_processes_2"
        /\ (~fs_read.exists
            \/ \A k \in 1..Len(fs_read.listing) :
                  fs_read.listing[k].name \notin BackgroundNames))
       => /\ background_dirs = <<>>
          /\ pc = "signal_loop"
          /\ exit_status = <<>>
          /\ signal_dirs # <<>>
    /\ (Called("check_all_processes") /\ background_dirs = <<>> /\ pc = "done")
       => /\ total_checked = Len(signal_dirs)
          /\ Len(report) = Len(signal_dirs)
          /\ (exit_status = <<0>>) <=>
                ((\A k \in 1..Len(report) : report[k].ok) /\ DelphesReturnedTrue)

\* 02_mg_processes_2 does not exist, signal_sm is the one process directory
\* and passes, and the run ended with the result of the downstream check.
C8_Witness ==
    /\ pc = "done"
    /\ top # NoRead
    /\ ~top.mg2
    /\ signal_dirs = <<Append(mg_processes_dir(base_dir), "signal_sm")>>
    /\ background_dirs = <<>>
    /\ report = <<[name |-> <<"signal_sm">>, ok |-> TRUE]>>
    /\ delphes_structure_ok
    /\ exit_status = <<0>>

\* The check of d met a directory that denies access and hides what it
\* holds: the process directory hides Events, Events hides its entries, or
\* a run directory hides its files.
AccessFailure(d) ==
    \/ d.mode = "---" /\ d.has_events
    \/ d.has_events /\ d.events_mode = "---"
    \/ d.has_events /\ \E r \in SeqRange(RunsOf(d)) : r.mode = "---"

\* The directory d with every path whose query failed for lack of access
\* replaced by a path that does not exist.
AsAbsent(d) ==
    IF d.mode = "---"
    THEN [mode |-> "rwx", has_events |-> FALSE, events_mode |-> "rwx",
          listing |-> <<>>]
    ELSE IF d.has_events /\ d.events_mode = "---"
    THEN [mode |-> "rwx", has_events |-> FALSE, events_mode |-> "rwx",
          listing |-> <<>>]
    ELSE [d EXCEPT !.listing =
             [k \in 1..Len(d.listing) |->
                 IF d.listing[k].mode = "---"
                 THEN [d.listing[k] EXCEPT !.mode = "rwx", !.files = {}]
                 ELSE d.listing[k]]]

\* C9: a process directory whose check met an access failure counts as a
\* failure, with an outcome that differs from the outcome of the same
\* directory when the inaccessible path does not exist.
C9_AccessFailureIsDistinct ==
    (Checked /\ AccessFailure(fs_read.dir)) =>
        /\ missing_files # <<>>
        /\ missing_files #
              check_required_files_in_directory(AsAbsent(fs_read.dir),
                                                fs_read.type)

\* The display name of the k-th directory check_all_processes checks.
DisplayName(k) ==
    IF k <= Len(signal_dirs) THEN signal_process_name(signal_dirs[k])
    ELSE background_process_name(background_dirs[k - Len(signal_dirs)])

\* C10: check_all_processes checks every signal directory and then every
\* background directory once, whatever the earlier ones gave: the verdict
\* lines follow the discovered directories, total_checked counts them,
\* total_with_issues counts the failed ones, the run does not end inside the
\* loops, and the downstream-structure check is called afterwards.
C10_FailuresAreAccumulated ==
    Called("check_all_processes") =>
        /\ total_checked = Len(report)
        /\ total_with_issues =
              Cardinality({k \in 1..Len(report) : ~report[k].ok})
        /\ 0 <= total_with_issues /\ total_with_issues <= total_checked
        /\ \A k \in 1..Len(report) : report[k].name = DisplayName(k)
        /\ fs_read.kind = "process" =>
              Last(report).ok = (missing_files = <<>>)
        /\ pc = "signal_loop" =>
              (total_checked = idx - 1 /\ exit_status = <<>>)
        /\ pc = "background_loop" =>
              (total_checked = Len(signal_dirs) + idx - 1 /\ exit_status = <<>>)
        /\ pc \in {"check_expected_structure_for_delphes", "final_summary", "done"} =>
              total_checked = Len(signal_dirs) + Len(background_dirs)
        /\ pc \in {"final_summary", "done"} =>
              Called("check_expected_structure_for_delphes")

\* The first directory failed, two more were checked after it, one of
\* them failed too, and the downstream-structure check was still called.
C10_Witness ==
    /\ pc = "done"
    /\ total_checked = 3
    /\ total_with_issues = 2
    /\ ~report[1].ok
    /\ report[2].ok
    /\ Len(background_dirs) >= 1
    /\ Called("check_expected_structure_for_delphes")

====
